---- MODULE Spec2Model ----
(***************************************************************************)
(* Model of the dicta recording orchestrator (src-tauri/src/lib.rs), its   *)
(* realtime protocol client (realtime.rs), the capture threads (audio.rs)  *)
(* and the system-audio mute bookkeeping (system_audio.rs).                *)
(*                                                                         *)
(* Every mutex-protected field of AppState is one variable; every task or  *)
(* thread the code spawns has a location, and every stretch of code        *)
(* between two points where another thread can observe the shared state is *)
(* one action.  Instant values are drawn from a logical clock (instant):   *)
(* two calls of Instant::now() that are ordered in the code get ordered    *)
(* values.  The time a task has slept in one of the two bounded waits of   *)
(* the stop sequence is counted in milliseconds of sleep.                  *)
(***************************************************************************)
EXTENDS Integers, Sequences, FiniteSets, TLC

VARIABLES
    is_recording,                \* AppState.is_recording
    current_session_transcript,  \* AppState.current_session_transcript
    speech_active,               \* AppState.speech_active
    last_speech_end,             \* AppState.last_speech_end (None or instant)
    last_transcription_time,     \* AppState.last_transcription_time
    recording_start_time,        \* AppState.recording_start_time
    was_muted_before,            \* system_audio::WAS_MUTED_BEFORE
    sys_muted,                   \* mute state of the default render endpoint
    recorder_recording,          \* AudioRecorder.recording (non-streaming mode)
    whisper,                     \* capture thread of each start_recording_audio
    sess,                        \* the tasks spawned by each start_realtime_recording
    startc,                      \* in-flight start_realtime_recording call
    stopc,                       \* in-flight stop_realtime_recording call
    ret,                         \* last command result handed to the frontend
    late_delta,                  \* a delta was appended after the caller's read
    instant,                     \* logical clock behind Instant::now()
    age,                         \* recording_start_time.elapsed(), by threshold
    nsess,                       \* realtime sessions spawned so far
    nwhisper,                    \* non-streaming recordings started so far
    nframes,                     \* inbound frames read so far
    nchunks                      \* capture callbacks delivered so far

shared == <<current_session_transcript, speech_active, last_speech_end,
            last_transcription_time>>
sysaudio == <<was_muted_before, sys_muted>>
whisperv == <<recorder_recording, whisper, nwhisper>>
cmds == <<startc, stopc>>
clock == <<instant, age>>
budget == <<nframes, nchunks>>

vars == <<is_recording, shared, recording_start_time, sysaudio, whisperv, sess,
          cmds, ret, late_delta, clock, nsess, budget>>

(***************************************************************************)
(* Bounds of the model.                                                    *)
(***************************************************************************)
MaxSessions == 2      \* Spec: successful start_realtime_recording calls
MaxFrames == 2        \* Spec: inbound socket frames over a run
SoloSessions == 1     \* SpecSolo, SpecModes, SpecAudio: sessions started
SoloFrames == 2       \* SpecSolo, SpecAudio: inbound socket frames over a run
MaxWhisper == 1       \* SpecModes: successful start_recording_audio calls
MaxChunks == 2        \* SpecAudio: capture callbacks delivered
MaxSamples == 3       \* SpecDsp, SpecChunks: samples in one callback buffer
MaxCallbacks == 1     \* SpecDsp, SpecChunks: callbacks that carry samples
MaxDevices == 2       \* SpecDevice: input devices the host lists

(***************************************************************************)
(* Policy constants of the stop sequence (milliseconds).                   *)
(***************************************************************************)
DRAIN_MAX_WAIT_MS == 3500     \* lib.rs 1000
DRAIN_POLL_MS == 80           \* lib.rs 1002
DRAIN_SETTLE_MS == 150        \* lib.rs 1017
CALLER_MAX_WAIT_MS == 4500    \* lib.rs 1082
CALLER_POLL_MS == 100         \* lib.rs 1086
CALLER_SETTLE_MS == 200       \* lib.rs 1097

\* Elapsed-time thresholds of the supervisory loop and of the timer task
\* (seconds).
WARNING_SECS == 300           \* lib.rs 892 and 218
AUTO_STOP_SECS == 360         \* lib.rs 939 and 264

Sessions == DOMAIN sess
Recordings == DOMAIN whisper

None == 0             \* Option::None for Option<Instant>; instants are >= 1

\* The delta fragments of the accumulation example, as character sequences,
\* so that String::push_str is sequence concatenation.
DeltaTexts == { <<"h", "e">>, <<"l", "l", "o">> }

(***************************************************************************)
(* realtime.rs: the inbound frames and what listen_for_events does with    *)
(* them.                                                                   *)
(***************************************************************************)
VadFrames ==
    { "input_audio_buffer.speech_started", "input_audio_buffer.speech_stopped" }

TranscriptFrames ==
    { "conversation.item.input_audio_transcription.delta",
      "conversation.item.input_audio_transcription.completed" }

\* "close" is Message::Close, "socket_error" is Err from the stream.
EndFrames == { "close", "socket_error" }

\* Frames for which listen_for_events has no arm that calls on_event or
\* leaves the loop: "error" is a server-reported error event, "other" a text
\* frame with any other type, "binary" a frame that is not Text or Close,
\* "unparsable" a text frame that is not JSON.
IgnoredFrames == { "error", "other", "binary", "unparsable" }

FrameTypes == TranscriptFrames \cup VadFrames \cup EndFrames \cup {"error", "other"}

\* The event listen_for_events hands to on_event for a text frame of the
\* given type, or "none" when the arm only logs.
TranscriptionEvent(type) ==
    CASE type = "conversation.item.input_audio_transcription.delta" -> "Delta"
      [] type = "conversation.item.input_audio_transcription.completed" -> "Completed"
      [] OTHER -> "none"

\* A read loop that also ends on a server-reported error event.
EndsListenOnError(type) == type \in EndFrames \cup {"error"}

\* Whether the frame ends the read loop.
EndsListen(type) == type \in EndFrames

(***************************************************************************)
(* audio.rs 6-58: device resolution.  A name is a sequence of characters;  *)
(* a device is its position in the list the host enumerates.               *)
(***************************************************************************)
DeviceNames == { <<"m">>, <<" ", "m">>, <<"m", " ">>, <<"u">> }

\* Option<&str>: None, or Some(name).
NoName == [some |-> FALSE, name |-> <<>>]

SomeName(name) == [some |-> TRUE, name |-> name]

RECURSIVE TrimStart(_)
TrimStart(name) ==
    IF name # <<>> /\ Head(name) = " " THEN TrimStart(Tail(name)) ELSE name

RECURSIVE TrimEnd(_)
TrimEnd(name) ==
    IF name # <<>> /\ name[Len(name)] = " "
    THEN TrimEnd(SubSeq(name, 1, Len(name) - 1))
    ELSE name

\* str::trim
Trim(name) == TrimEnd(TrimStart(name))

\* audio.rs 31: the test applied to each listed device in turn.
Matches(device_name_str, name) ==
    device_name_str = name \/ Trim(device_name_str) = Trim(name)

\* A lookup that has no fallback: a requested name that is not found is an
\* error.
get_input_device_strict(device_name, devices, default, enumerable) ==
    LET found == { i \in 1..Len(devices) : Matches(devices[i], device_name.name) }
        first == CHOOSE i \in found : \A j \in found : i <= j
    IN  IF device_name.some
        THEN IF enumerable /\ found # {}
             THEN [ok |-> TRUE, device |-> first]
             ELSE [ok |-> FALSE, device |-> 0]
        ELSE IF default # 0
        THEN [ok |-> TRUE, device |-> default]
        ELSE [ok |-> FALSE, device |-> 0]

\* audio.rs 6-58: the result for a requested name, the list of devices, the
\* default device, and whether host.input_devices() succeeds.  The first
\* listed device that passes the test is returned; without one (or without
\* a requested name) the default device, and Err without a default.
get_input_device_by_name(device_name, devices, default, enumerable) ==
    LET found == { i \in 1..Len(devices) : Matches(devices[i], device_name.name) }
        first == CHOOSE i \in found : \A j \in found : i <= j
    IN  IF device_name.some /\ ~enumerable
        THEN [ok |-> FALSE, device |-> 0]
        ELSE IF device_name.some /\ found # {}
        THEN [ok |-> TRUE, device |-> first]
        ELSE IF default # 0
        THEN [ok |-> TRUE, device |-> default]
        ELSE [ok |-> FALSE, device |-> 0]

(***************************************************************************)
(* audio.rs: the sample arithmetic of the stream callbacks.  Samples are   *)
(* i16 values; sums are formed in i32 and divided with Rust's integer      *)
(* division, which truncates toward zero.                                  *)
(***************************************************************************)
TARGET_RATE == 24000          \* audio.rs 329

Samples == { -1, 1, 2 }

NativeRates == { 16000, 24000, 48000 }

ChannelCounts == { 1, 2 }

\* The buffers of at most n samples drawn from S.
SampleSeqs(S, n) == UNION { [1..k -> S] : k \in 0..n }

\* Rust's a / b on integers, b > 0.
TruncDiv(a, b) == IF a >= 0 THEN a \div b ELSE -((-a) \div b)

RECURSIVE SumSeq(_)
SumSeq(q) == IF q = <<>> THEN 0 ELSE Head(q) + SumSeq(Tail(q))

\* data.chunks_exact(channels): the k-th complete frame.
Frame(data, channels, k) == SubSeq(data, (k - 1) * channels + 1, k * channels)

\* A downmix that keeps the first channel of every frame.
DownmixFirstChannel(data, channels) ==
    [k \in 1..(Len(data) \div channels) |-> Frame(data, channels, k)[1]]

\* audio.rs 316-326: one channel is passed through; otherwise every complete
\* frame is replaced by the sum of its samples divided by the channel count.
Downmix(data, channels) ==
    IF channels = 1
    THEN data
    ELSE [k \in 1..(Len(data) \div channels) |->
              TruncDiv(SumSeq(Frame(data, channels, k)), channels)]

\* An f32 sample of the recorder: the quotient num / den, kept exact.
F32(num, den) == [num |-> num, den |-> den]

\* audio.rs 121-129: the recorder's downmix of f32 samples: one channel is
\* passed through; otherwise every complete frame is replaced by its sum
\* divided by the channel count.
DownmixF32(data, channels) ==
    IF channels = 1
    THEN [k \in 1..Len(data) |-> F32(data[k], 1)]
    ELSE [k \in 1..(Len(data) \div channels) |->
              F32(SumSeq(Frame(data, channels, k)), channels)]

\* audio.rs 332-335: iter().step_by(step) yields the samples at offsets 0,
\* step, 2*step, ...
Decimate(mono, step) ==
    [k \in 1..((Len(mono) + step - 1) \div step) |-> mono[(k - 1) * step + 1]]

\* audio.rs 340-350: the loop body for offsets i, i+1, ..., len-2: curr, the
\* interpolated sample, and next when i is odd.
RECURSIVE Interpolate(_, _)
Interpolate(mono, i) ==
    IF i >= Len(mono) - 1
    THEN <<>>
    ELSE <<mono[i + 1], TruncDiv(2 * mono[i + 1] + mono[i + 2], 3)>>
         \o (IF i % 2 = 1 THEN <<mono[i + 2]>> ELSE <<>>)
         \o Interpolate(mono, i + 1)

\* A resampler that halves at every rate.
ResampleHalving(native_rate, mono) == Decimate(mono, 2)

\* audio.rs 329-351: the branches for the target rate, its multiples, and
\* 16 kHz (for a buffer that is not empty).  Other rates are outside
\* NativeRates.
Resample(native_rate, mono) ==
    IF native_rate = TARGET_RATE
    THEN mono
    ELSE IF native_rate > TARGET_RATE /\ native_rate % TARGET_RATE = 0
    THEN Decimate(mono, native_rate \div TARGET_RATE)
    ELSE Interpolate(mono, 0)

(***************************************************************************)
(* system_audio.rs                                                         *)
(***************************************************************************)
mute_system_audio ==
    /\ was_muted_before' = IF sys_muted THEN "true" ELSE "false"
    /\ sys_muted' = TRUE

unmute_system_audio ==
    CASE was_muted_before = "true"  -> was_muted_before' = "None" /\ UNCHANGED sys_muted
      [] was_muted_before = "false" -> was_muted_before' = "None" /\ sys_muted' = FALSE
      [] OTHER -> UNCHANGED <<was_muted_before, sys_muted>>

(***************************************************************************)
(* The state of one spawned session: the task of the tokio::spawn in       *)
(* start_realtime_recording, its capture thread, audio_task and            *)
(* listen_task, the two channels, and what it has handed to the socket.    *)
(***************************************************************************)
NoSession ==
    [ pc |-> "idle",              \* location of the spawned task
      cap |-> "none",             \* capture thread
      local_audio_rx |-> <<>>,    \* channel callback -> capture thread
      audio_rx |-> <<>>,          \* channel capture thread -> audio_task
      audio_task |-> "none",
      chunk |-> 0,                \* chunk audio_task is sending
      selected_mic |-> NoName,    \* device name requested (Option<String>)
      devices |-> <<>>,           \* names host.input_devices() listed
      default_device |-> 0,       \* host.default_input_device(), 0 for None
      device |-> 0,               \* device resolved, 0 for none
      enumerated |-> FALSE,       \* host.input_devices() returned a list
      native_rate |-> 0,          \* config.sample_rate of the opened device
      channels |-> 0,             \* config.channels of the opened device
      callbacks |-> 0,            \* stream callbacks that carried samples
      produced |-> <<>>,          \* numbered chunks the callback has sent
      data |-> <<>>,              \* buffer of the latest callback
      mono_data |-> <<>>,         \* its downmix
      resampled |-> <<>>,         \* its resampled chunk
      listen_task |-> "none",
      wire |-> <<>>,              \* messages handed to write.send, in order
      warning_shown |-> FALSE,
      auto_stop_triggered |-> FALSE,
      warnings |-> 0,             \* times the warning widget was raised
      stop_requests |-> 0,        \* times widget-stop-recording was emitted
      had_any_speech |-> FALSE,
      transcription_before_stop |-> None,
      drain_ms |-> 0,             \* time slept by the drain loop
      settled |-> FALSE,          \* the drain loop saw a newer transcription
      \* observations used by the properties
      quiet_at_stop |-> FALSE,    \* speech_active false and last_speech_end None at stop
      heard |-> <<>>,             \* delta texts handled by this session's listener
      vad_reported |-> FALSE,     \* the listener has read a speech frame
      vad_at_stop |-> FALSE,      \* vad_reported when the stop was observed
      read_done |-> FALSE ]       \* the caller has read the transcript since

NoRecording ==
    [ thread |-> "none",          \* capture thread of AudioRecorder
      timer |-> "none",           \* timer task of start_recording_audio
      warning_shown |-> FALSE,
      auto_stop_triggered |-> FALSE,
      warnings |-> 0,
      stop_requests |-> 0,
      channels |-> 0,             \* config.channels() of the opened device
      data |-> <<>>,              \* buffer of the latest callback
      audio |-> <<>> ]            \* audio_data: the mono samples recorded

Live(s) == sess[s].pc \notin {"idle", "done", "error"}

Idle == [pc |-> "idle"]

StopIdle == [pc |-> "idle", transcription_at_stop |-> None, had_speech |-> FALSE,
             quiet_at_stop |-> FALSE, wait_ms |-> 0]

(***************************************************************************)
(* The speech evaluation of the stop sequence.                             *)
(***************************************************************************)
\* An evaluation that finds speech at every stop.
had_any_speech_always == TRUE

\* lib.rs 985-986
had_any_speech == last_speech_end # None \/ speech_active

\* lib.rs 1080-1081: the same evaluation in stop_realtime_recording.
had_speech == last_speech_end # None \/ speech_active

\* lib.rs 1008-1012 and 1089-1093
new_transcription_arrived(latest, before) ==
    IF latest # None /\ before # None THEN latest > before
    ELSE latest # None /\ before = None

(***************************************************************************)
(* The elapsed-time thresholds.                                            *)
(***************************************************************************)
\* Thresholds that fire on every round.
WarningDueAgain(shown) == recording_start_time # None /\ age >= WARNING_SECS

AutoStopDueAgain(shown) == recording_start_time # None /\ age >= AUTO_STOP_SECS

\* lib.rs 885-892 and 215-218: the warning is due when the elapsed time has
\* reached 5 minutes and this task has not raised it yet.
WarningDue(shown) == recording_start_time # None /\ age >= WARNING_SECS /\ ~shown

\* lib.rs 885-939 and 215-264: the stop request is due when the elapsed time
\* has reached 6 minutes and this task has not emitted it yet.
AutoStopDue(shown) == recording_start_time # None /\ age >= AUTO_STOP_SECS /\ ~shown

(***************************************************************************)
(* Commands.  The last step of a command hands its result to the frontend  *)
(* (ret).  One call of start_realtime_recording and one call of            *)
(* stop_realtime_recording can be past their flag check at a time.         *)
(***************************************************************************)
Return(cmd, res) == ret' = [cmd |-> cmd, res |-> res]

\* Frame of a command step that touches nothing but ret.
OnlyRet == UNCHANGED <<is_recording, shared, recording_start_time, sysaudio,
                       whisperv, sess, cmds, late_delta, clock, nsess, budget>>

\* Frame of a step of a session's tasks that touches sess and the flag only.
OnlySess == UNCHANGED <<shared, recording_start_time, sysaudio, whisperv, cmds,
                        ret, late_delta, clock, nsess, budget>>

\* A start command that does not look at the flag.
AlreadyRecordingNever == FALSE

\* lib.rs 722-723 and 175-176: the check both start commands make under the
\* is_recording lock.
AlreadyRecording == is_recording

\* A stop or cancel command that does not look at the flag.
NotRecordingNever == FALSE

\* lib.rs 153, 303-304 and 1054: the check of the stop and cancel commands.
NotRecording == ~is_recording

\* lib.rs 721-725: start_realtime_recording while the flag is set.
StartRealtimeRejected ==
    /\ AlreadyRecording
    /\ Return("start_realtime_recording", "Already recording")
    /\ OnlyRet

\* lib.rs 722-738: flag set, system audio muted, start time taken, all under
\* the is_recording lock.
StartRealtimeBegin ==
    /\ startc.pc = "idle"
    /\ ~AlreadyRecording
    /\ nsess < Cardinality(Sessions)
    /\ is_recording' = TRUE
    /\ mute_system_audio
    /\ instant' = instant + 1
    /\ recording_start_time' = instant + 1
    /\ age' = 0
    /\ startc' = [pc |-> "reset"]
    /\ UNCHANGED <<shared, whisperv, sess, stopc, ret, late_delta, nsess, budget>>

\* lib.rs 740-744: after the lock is dropped the session transcript and the
\* speech state are reset, each under its own lock.
StartRealtimeReset ==
    /\ startc.pc = "reset"
    /\ current_session_transcript' = <<>>
    /\ speech_active' = FALSE
    /\ last_speech_end' = None
    /\ last_transcription_time' = None
    /\ startc' = [pc |-> "spawn"]
    /\ UNCHANGED <<is_recording, recording_start_time, sysaudio, whisperv, sess,
                   stopc, ret, late_delta, clock, nsess, budget>>

\* lib.rs 746-765 and 1045: the session task is spawned and the command
\* returns.
StartRealtimeSpawn ==
    /\ startc.pc = "spawn"
    /\ nsess' = nsess + 1
    /\ sess' = [sess EXCEPT ![nsess + 1] = [NoSession EXCEPT !.pc = "connect"]]
    /\ startc' = Idle
    /\ Return("start_realtime_recording", "Realtime recording started")
    /\ UNCHANGED <<is_recording, shared, recording_start_time, sysaudio, whisperv,
                   stopc, late_delta, clock, budget>>

\* lib.rs 1052-1057: stop_realtime_recording while the flag is clear.
StopRealtimeRejected ==
    /\ NotRecording
    /\ Return("stop_realtime_recording", "Not recording")
    /\ OnlyRet

\* lib.rs 1052-1082: the flag is cleared, system audio restored, and the
\* caller takes its own snapshot of the speech state.
StopRealtimeBegin ==
    /\ stopc.pc = "idle"
    /\ ~NotRecording
    /\ is_recording' = FALSE
    /\ unmute_system_audio
    /\ stopc' = [pc |-> IF had_speech THEN "wait" ELSE "read",
                 transcription_at_stop |-> last_transcription_time,
                 had_speech |-> had_speech,
                 quiet_at_stop |-> ~speech_active /\ last_speech_end = None,
                 wait_ms |-> 0]
    /\ UNCHANGED <<shared, recording_start_time, whisperv, sess, startc, ret,
                   late_delta, clock, nsess, budget>>

\* lib.rs 1084-1294: the rest of stop_realtime_recording, one step at a time.
\* With speech, one round of the wait loop (100 ms sleep, then the strictly
\* newer check and the 4.5 s bound), then the 200 ms settle; then the
\* accumulated transcript is read and handed on (persisted and pasted when
\* it is not empty) and the command returns.
StopRealtimeFinish ==
    /\ stopc.pc \in {"wait", "settle", "read"}
    /\ IF stopc.pc = "wait"
       THEN LET slept == stopc.wait_ms + CALLER_POLL_MS IN
            /\ stopc' = [stopc EXCEPT
                   !.wait_ms = slept,
                   !.pc = IF new_transcription_arrived(last_transcription_time,
                                                       stopc.transcription_at_stop)
                          THEN "settle"
                          ELSE IF slept > CALLER_MAX_WAIT_MS THEN "read" ELSE "wait"]
            /\ UNCHANGED <<sess, ret>>
       ELSE IF stopc.pc = "settle"
       THEN /\ stopc' = [stopc EXCEPT !.wait_ms = @ + CALLER_SETTLE_MS,
                                      !.pc = "read"]
            /\ UNCHANGED <<sess, ret>>
       ELSE /\ stopc' = [stopc EXCEPT !.pc = "idle"]
            /\ sess' = [s \in Sessions |->
                          IF sess[s].pc # "idle"
                          THEN [sess[s] EXCEPT !.read_done = TRUE]
                          ELSE sess[s]]
            /\ Return("stop_realtime_recording", "Realtime recording stopped")
    /\ UNCHANGED <<is_recording, shared, recording_start_time, sysaudio, whisperv,
                   startc, late_delta, clock, nsess, budget>>

(***************************************************************************)
(* The non-streaming mode: start_recording_audio, stop_recording_audio,    *)
(* cancel_recording and the capture thread of AudioRecorder.  Each command *)
(* holds the is_recording lock from its check to its return, so it is one  *)
(* step.  The timer task of start_recording_audio (lib.rs 203-296) reads   *)
(* the flag and the start time and raises the warning and the stop request.*)
(***************************************************************************)
\* lib.rs 174-177: start_recording_audio while the flag is set.
StartRecordingAudioRejected ==
    /\ AlreadyRecording
    /\ Return("start_recording_audio", "Already recording")
    /\ OnlyRet

\* lib.rs 173-299 (audio.rs 79-162): start time taken, the recorder started
\* (its flag set, its capture thread spawned), the flag set, system audio
\* muted, the timer task spawned.
StartRecordingAudio ==
    /\ ~AlreadyRecording
    /\ nwhisper < Cardinality(Recordings)
    /\ instant' = instant + 1
    /\ recording_start_time' = instant + 1
    /\ age' = 0
    /\ recorder_recording' = TRUE
    /\ is_recording' = TRUE
    /\ mute_system_audio
    /\ nwhisper' = nwhisper + 1
    /\ whisper' = [whisper EXCEPT ![nwhisper + 1] =
                      [NoRecording EXCEPT !.thread = "opening",
                                          !.timer = "running"]]
    /\ Return("start_recording_audio", "Recording started")
    /\ UNCHANGED <<shared, sess, cmds, late_delta, nsess, budget>>

\* lib.rs 303-306: stop_recording_audio while the flag is clear.
StopRecordingAudioRejected ==
    /\ NotRecording
    /\ Return("stop_recording_audio", "Not recording")
    /\ OnlyRet

\* lib.rs 302-488 (audio.rs 164-185): the recorder is stopped, the flag
\* cleared, system audio restored; without audio the command returns an
\* error, otherwise the audio is handed to the transcription request.
StopRecordingAudio ==
    /\ ~NotRecording
    /\ recorder_recording' = FALSE
    /\ is_recording' = FALSE
    /\ unmute_system_audio
    /\ \E res \in {"No audio recorded", "Recording stopped, processing..."} :
         Return("stop_recording_audio", res)
    /\ UNCHANGED <<shared, recording_start_time, whisper, nwhisper, sess, cmds,
                   late_delta, clock, nsess, budget>>

\* lib.rs 152-155: cancel_recording while the flag is clear.
CancelRecordingRejected ==
    /\ NotRecording
    /\ Return("cancel_recording", "Not recording")
    /\ OnlyRet

\* lib.rs 150-170: the recorder is stopped and its audio discarded, the flag
\* cleared, system audio restored.
CancelRecording ==
    /\ ~NotRecording
    /\ recorder_recording' = FALSE
    /\ is_recording' = FALSE
    /\ unmute_system_audio
    /\ Return("cancel_recording", "Recording cancelled")
    /\ UNCHANGED <<shared, recording_start_time, whisper, nwhisper, sess, cmds,
                   late_delta, clock, nsess, budget>>

\* Frame of a step of a non-streaming capture thread.
OnlyWhisper == UNCHANGED <<is_recording, shared, recording_start_time, sysaudio,
                           nwhisper, sess, cmds, ret, late_delta, clock, nsess,
                           budget>>

\* audio.rs 88-151: the capture thread resolves the device, builds and plays
\* the stream; on any failure it clears the recorder's own flag and ends.
WhisperThreadOpen(w) ==
    /\ whisper[w].thread = "opening"
    /\ \E ok \in BOOLEAN :
         IF ok
         THEN /\ whisper' = [whisper EXCEPT ![w].thread = "streaming"]
              /\ UNCHANGED recorder_recording
         ELSE /\ whisper' = [whisper EXCEPT ![w].thread = "failed"]
              /\ recorder_recording' = FALSE
    /\ OnlyWhisper

\* audio.rs 97-113: a device that hands over its channel count.
WhisperThreadOpenDevice(w, counts) ==
    /\ whisper[w].thread = "opening"
    /\ \/ /\ \E c \in counts :
                whisper' = [whisper EXCEPT ![w].thread = "streaming",
                                           ![w].channels = c]
          /\ UNCHANGED recorder_recording
       \/ /\ whisper' = [whisper EXCEPT ![w].thread = "failed"]
          /\ recorder_recording' = FALSE
    /\ OnlyWhisper

\* audio.rs 117-131: one stream callback of the recorder.  While the
\* recorder's flag is set the buffer is mixed down and appended to
\* audio_data.
WhisperCallback(w, inputs, maxCallbacks) ==
    /\ whisper[w].thread = "streaming"
    /\ whisper[w].channels # 0
    /\ nchunks < maxCallbacks
    /\ nchunks' = nchunks + 1
    /\ \E data \in inputs :
         whisper' = [whisper EXCEPT
             ![w].data = data,
             ![w].audio = IF recorder_recording
                          THEN @ \o DownmixF32(data, whisper[w].channels)
                          ELSE @]
    /\ UNCHANGED <<is_recording, shared, recording_start_time, sysaudio,
                   recorder_recording, nwhisper, sess, cmds, ret, late_delta,
                   clock, nsess, nframes>>

\* audio.rs 153-159: the thread keeps the stream while the recorder's flag is
\* set, then drops it, which releases the microphone.
WhisperThreadPoll(w) ==
    /\ whisper[w].thread = "streaming"
    /\ ~recorder_recording
    /\ whisper' = [whisper EXCEPT ![w].thread = "released"]
    /\ UNCHANGED recorder_recording
    /\ OnlyWhisper

\* lib.rs 203-296: one round of the timer task after its 500 ms sleep.  It
\* ends when it reads the flag clear; otherwise it compares the elapsed time
\* with the two thresholds.
WhisperTimerPoll(w) ==
    /\ whisper[w].timer = "running"
    /\ IF ~is_recording
       THEN whisper' = [whisper EXCEPT ![w].timer = "ended"]
       ELSE LET warn == WarningDue(whisper[w].warning_shown)
                auto == AutoStopDue(whisper[w].auto_stop_triggered)
            IN  whisper' = [whisper EXCEPT
                    ![w].warning_shown = @ \/ warn,
                    ![w].auto_stop_triggered = @ \/ auto,
                    ![w].warnings = IF warn THEN @ + 1 ELSE @,
                    ![w].stop_requests = IF auto THEN @ + 1 ELSE @]
    /\ UNCHANGED recorder_recording
    /\ OnlyWhisper

(***************************************************************************)
(* The session task (lib.rs 765-1043).                                     *)
(***************************************************************************)
\* lib.rs 766 and 1038-1041 (realtime.rs 32-66): connect succeeds, or fails
\* and the task clears the flag and ends.
Connect(s) ==
    /\ sess[s].pc = "connect"
    /\ \E ok \in BOOLEAN :
         IF ok
         THEN /\ sess' = [sess EXCEPT ![s].pc = "configure"]
              /\ UNCHANGED is_recording
         ELSE /\ sess' = [sess EXCEPT ![s].pc = "error"]
              /\ is_recording' = FALSE
    /\ OnlySess

\* A configure step whose failure ends the session task but not before the
\* capture thread and audio_task have been spawned, and leaves the flag.
ConfigureSpawningFirst(s) ==
    /\ sess[s].pc = "configure"
    /\ \E ok \in BOOLEAN :
         sess' = [sess EXCEPT ![s].pc = IF ok THEN "poll" ELSE "error",
                              ![s].wire = Append(@, <<"session.update", 0>>),
                              ![s].cap = "opening",
                              ![s].audio_task = "recv",
                              ![s].listen_task = "running"]
    /\ UNCHANGED is_recording
    /\ OnlySess

\* lib.rs 771-869 (realtime.rs 76-103): the configuration message is sent.
\* On failure the task clears the flag and ends; on success the capture
\* thread, audio_task and listen_task are spawned and the supervisory loop
\* is entered.
Configure(s) ==
    /\ sess[s].pc = "configure"
    /\ \E ok \in BOOLEAN :
         IF ok
         THEN /\ sess' = [sess EXCEPT ![s].pc = "poll",
                                       ![s].wire = Append(@, <<"session.update", 0>>),
                                       ![s].cap = "opening",
                                       ![s].audio_task = "recv",
                                       ![s].listen_task = "running"]
              /\ UNCHANGED is_recording
         ELSE /\ sess' = [sess EXCEPT ![s].pc = "error",
                                       ![s].wire = Append(@, <<"session.update", 0>>)]
              /\ is_recording' = FALSE
    /\ OnlySess

\* A supervisory loop that is left on the flag only.
LeaveLoopOnFlagOnly(s) == ~is_recording

\* lib.rs 880-885 and 972-975: the supervisory loop is left when the flag is
\* read clear or when listen_task has finished.
LeaveLoop(s) == ~is_recording \/ sess[s].listen_task = "finished"

\* lib.rs 877-989: one round of the supervisory loop after its 100 ms sleep.
\* The flag is read; when it is clear the loop is left.  Otherwise the
\* elapsed time is compared with the warning and auto-stop thresholds (the
\* warning widget is shown, widget-stop-recording is emitted), and the loop
\* is left when listen_task has finished.  On leaving the loop the speech
\* state is evaluated and the transcription time is snapshot.
SupervisoryPoll(s) ==
    /\ sess[s].pc = "poll"
    /\ LET warn == is_recording /\ WarningDue(sess[s].warning_shown)
           auto == is_recording /\ AutoStopDue(sess[s].auto_stop_triggered)
           leave == LeaveLoop(s)
       IN  sess' = [sess EXCEPT
               ![s].warning_shown = @ \/ warn,
               ![s].auto_stop_triggered = @ \/ auto,
               ![s].warnings = IF warn THEN @ + 1 ELSE @,
               ![s].stop_requests = IF auto THEN @ + 1 ELSE @,
               ![s].pc = IF leave THEN "stopping" ELSE "poll",
               ![s].had_any_speech = IF leave THEN had_any_speech ELSE @,
               ![s].transcription_before_stop =
                   IF leave THEN last_transcription_time ELSE @,
               ![s].quiet_at_stop =
                   IF leave THEN ~speech_active /\ last_speech_end = None ELSE @,
               ![s].vad_at_stop = IF leave THEN sess[s].vad_reported ELSE @]
    /\ UNCHANGED is_recording
    /\ OnlySess

\* A finalize that aborts the tasks and leaves the flag as it is.
FinalizeKeepsFlag(s) ==
    /\ sess' = [sess EXCEPT
           ![s].pc = "done",
           ![s].audio_task = IF @ \in {"recv", "send"} THEN "aborted" ELSE @,
           ![s].listen_task = IF @ = "running" THEN "aborted" ELSE @]
    /\ UNCHANGED is_recording

\* lib.rs 1030-1036: audio_task and listen_task are aborted and the flag is
\* cleared; the task ends, which drops the session and with it the socket.
Finalize(s) ==
    /\ sess' = [sess EXCEPT
           ![s].pc = "done",
           ![s].audio_task = IF @ \in {"recv", "send"} THEN "aborted" ELSE @,
           ![s].listen_task = IF @ = "running" THEN "aborted" ELSE @]
    /\ is_recording' = FALSE

\* lib.rs 991-1036 (realtime.rs 123-135): the stop sequence after the
\* supervisory loop, one step at a time.  With speech, the commit message is
\* sent (a failed send is only logged) and the drain loop runs: each round
\* sleeps 80 ms, then leaves after the 150 ms settle when a strictly newer
\* transcription time is found, or leaves when more than 3.5 s have passed.
\* Then (location "abort"), and at once without speech, audio_task and
\* listen_task are aborted, the flag is cleared and the session (with its
\* socket) dropped.
StopSequence(s) ==
    /\ sess[s].pc \in {"stopping", "drain", "abort"}
    /\ LET t == sess[s] IN
       IF t.pc = "stopping" /\ t.had_any_speech
       THEN /\ sess' = [sess EXCEPT
                   ![s].pc = "drain",
                   ![s].wire = Append(@, <<"input_audio_buffer.commit", 0>>)]
            /\ UNCHANGED is_recording
       ELSE IF t.pc = "drain"
       THEN LET slept == t.drain_ms + DRAIN_POLL_MS
                newer == new_transcription_arrived(last_transcription_time,
                                                   t.transcription_before_stop)
            IN  /\ sess' = [sess EXCEPT
                       ![s].drain_ms = IF newer THEN slept + DRAIN_SETTLE_MS ELSE slept,
                       ![s].settled = newer,
                       ![s].pc = IF newer \/ slept > DRAIN_MAX_WAIT_MS
                                 THEN "abort" ELSE "drain"]
                /\ UNCHANGED is_recording
       ELSE Finalize(s)
    /\ OnlySess

(***************************************************************************)
(* The capture thread (lib.rs 784-815, audio.rs 286-404).                  *)
(***************************************************************************)
\* lib.rs 789-796: start_streaming opens the device and plays the stream, or
\* fails, and then the thread clears the flag and ends.
CaptureOpen(s) ==
    /\ sess[s].cap = "opening"
    /\ \E ok \in BOOLEAN :
         IF ok
         THEN /\ sess' = [sess EXCEPT ![s].cap = "running"]
              /\ UNCHANGED is_recording
         ELSE /\ sess' = [sess EXCEPT ![s].cap = "failed"]
              /\ is_recording' = FALSE
    /\ OnlySess

\* A device that hands over its native rate and channel count: start_streaming
\* (audio.rs 286-310) reads them from the device's default input config.
CaptureOpenDevice(s, rates, counts) ==
    /\ sess[s].cap = "opening"
    /\ \/ /\ \E r \in rates, c \in counts :
                sess' = [sess EXCEPT ![s].cap = "running",
                                     ![s].native_rate = r,
                                     ![s].channels = c]
          /\ UNCHANGED is_recording
       \/ /\ sess' = [sess EXCEPT ![s].cap = "failed"]
          /\ is_recording' = FALSE
    /\ OnlySess

\* audio.rs 288, 292-310, 380-382: start_streaming resolves the device for
\* the selected microphone among the devices the host lists at that moment;
\* with a device the stream is built and played (or that fails), without
\* one start_streaming returns Err, and the thread clears the flag.
CaptureResolve(s, names, maxDevices) ==
    /\ sess[s].cap = "opening"
    /\ \E request \in {NoName} \cup { SomeName(n) : n \in names },
          k \in 0..maxDevices, enumerable \in BOOLEAN, plays \in BOOLEAN :
         \E devices \in [1..k -> names], default \in 0..k :
           LET r == get_input_device_by_name(request, devices, default, enumerable)
               ok == r.ok /\ plays
           IN  /\ enumerable \/ request.some
               /\ r.ok \/ plays
               /\ sess' = [sess EXCEPT
                      ![s].selected_mic = request,
                      ![s].devices = IF enumerable THEN devices ELSE <<>>,
                      ![s].default_device = default,
                      ![s].device = r.device,
                      ![s].enumerated = enumerable,
                      ![s].cap = IF ok THEN "running" ELSE "failed"]
               /\ is_recording' = (is_recording /\ ok)
    /\ OnlySess

\* The same with every name of DeviceNames.
CaptureResolveDevice(s, maxDevices) == CaptureResolve(s, DeviceNames, maxDevices)

\* A callback that sends whatever it has resampled.
TransmitsAlways(chunk) == TRUE

\* audio.rs 375: the chunk is sent only when it is not empty.
Transmits(chunk) == chunk # <<>>

\* audio.rs 314-378: one stream callback with a buffer of samples.  The
\* buffer is mixed down and resampled and the result sent through the
\* recorder's channel.  In the 16 kHz branch an empty buffer makes
\* mono_data.len() - 1 underflow: the subtraction panics, or wraps and then
\* mono_data[0] panics; either way the callback unwinds and sends nothing.
CallbackSamples(s, inputs, maxCallbacks) ==
    /\ sess[s].cap = "running"
    /\ sess[s].native_rate # 0
    /\ nchunks < maxCallbacks
    /\ nchunks' = nchunks + 1
    /\ \E data \in inputs :
         LET mono == Downmix(data, sess[s].channels)
             out == Resample(sess[s].native_rate, mono)
         IN  IF sess[s].native_rate = 16000 /\ mono = <<>>
             THEN sess' = [sess EXCEPT ![s].cap = "panicked",
                                       ![s].callbacks = @ + 1,
                                       ![s].data = data,
                                       ![s].mono_data = mono,
                                       ![s].resampled = <<>>]
             ELSE sess' = [sess EXCEPT
                      ![s].callbacks = @ + 1,
                      ![s].data = data,
                      ![s].mono_data = mono,
                      ![s].resampled = out,
                      ![s].local_audio_rx =
                          IF Transmits(out) THEN Append(@, out) ELSE @]
    /\ UNCHANGED <<is_recording, shared, recording_start_time, sysaudio, whisperv,
                   cmds, ret, late_delta, clock, nsess, nframes>>

\* audio.rs 314-378: one stream callback puts its resampled chunk into the
\* recorder's channel.
Callback(s, maxChunks) ==
    /\ sess[s].cap = "running"
    /\ nchunks < maxChunks
    /\ nchunks' = nchunks + 1
    /\ sess' = [sess EXCEPT ![s].local_audio_rx = Append(@, nchunks + 1),
                            ![s].produced = Append(@, nchunks + 1)]
    /\ UNCHANGED <<is_recording, shared, recording_start_time, sysaudio, whisperv,
                   cmds, ret, late_delta, clock, nsess, nframes>>

\* A forwarding loop that takes the newest chunk of the channel first.
CaptureForwardNewestFirst(s) ==
    /\ sess[s].cap = "running"
    /\ sess[s].local_audio_rx # <<>>
    /\ LET n == Len(sess[s].local_audio_rx)
           c == sess[s].local_audio_rx[n]
           closed == sess[s].audio_task \in {"finished", "failed", "aborted"}
       IN  IF ~is_recording \/ closed
           THEN sess' = [sess EXCEPT ![s].cap = "released",
                                     ![s].local_audio_rx = <<>>]
           ELSE sess' = [sess EXCEPT ![s].local_audio_rx = SubSeq(@, 1, n - 1),
                                     ![s].audio_rx = Append(@, c)]
    /\ UNCHANGED is_recording
    /\ OnlySess

\* lib.rs 799-814: the thread takes one chunk; with the flag clear, or with
\* audio_rx gone, it leaves the loop and releases the device, otherwise it
\* forwards the chunk.
CaptureForward(s) ==
    /\ sess[s].cap = "running"
    /\ sess[s].local_audio_rx # <<>>
    /\ LET c == Head(sess[s].local_audio_rx)
           closed == sess[s].audio_task \in {"finished", "failed", "aborted"}
       IN  IF ~is_recording \/ closed
           THEN sess' = [sess EXCEPT ![s].cap = "released",
                                     ![s].local_audio_rx = <<>>]
           ELSE sess' = [sess EXCEPT ![s].local_audio_rx = Tail(@),
                                     ![s].audio_rx = Append(@, c)]
    /\ UNCHANGED is_recording
    /\ OnlySess

(***************************************************************************)
(* audio_task (lib.rs 823-832, realtime.rs 106-120).                       *)
(***************************************************************************)
\* lib.rs 824: a chunk is received.
AudioRecv(s) ==
    /\ sess[s].audio_task = "recv"
    /\ sess[s].audio_rx # <<>>
    /\ sess' = [sess EXCEPT ![s].audio_task = "send",
                            ![s].chunk = Head(sess[s].audio_rx),
                            ![s].audio_rx = Tail(@)]
    /\ UNCHANGED is_recording
    /\ OnlySess

\* lib.rs 824, 831: with audio_tx dropped (the capture thread has ended) and
\* the channel empty, recv returns None and the task finishes.
AudioEnd(s) ==
    /\ sess[s].audio_task = "recv"
    /\ sess[s].audio_rx = <<>>
    /\ sess[s].cap \in {"released", "failed"}
    /\ sess' = [sess EXCEPT ![s].audio_task = "finished"]
    /\ UNCHANGED is_recording
    /\ OnlySess

\* lib.rs 825-829: send_audio hands the append message to the socket; on Err
\* the loop is left and the task ends.
AudioSend(s) ==
    /\ sess[s].audio_task = "send"
    /\ \E ok \in BOOLEAN :
         sess' = [sess EXCEPT
             ![s].wire = Append(@, <<"input_audio_buffer.append", sess[s].chunk>>),
             ![s].chunk = 0,
             ![s].audio_task = IF ok THEN "recv" ELSE "failed"]
    /\ UNCHANGED is_recording
    /\ OnlySess

(***************************************************************************)
(* listen_task (lib.rs 839-869, realtime.rs 138-206).                      *)
(***************************************************************************)
\* A closure that also stamps the transcription time on a delta.
on_event_stamping_deltas(ev, text) ==
    CASE ev = "Delta" ->
           /\ current_session_transcript' = current_session_transcript \o text
           /\ instant' = instant + 1
           /\ last_transcription_time' = instant + 1
           /\ UNCHANGED <<speech_active, last_speech_end>>
      [] ev = "Completed" ->
           /\ instant' = instant + 1
           /\ last_transcription_time' = instant + 1
           /\ UNCHANGED <<current_session_transcript, speech_active,
                          last_speech_end>>
      [] OTHER -> UNCHANGED <<shared, instant>>

\* lib.rs 841-867: the closure given to listen_for_events.
on_event(ev, text) ==
    CASE ev = "Delta" ->
           /\ current_session_transcript' = current_session_transcript \o text
           /\ UNCHANGED <<speech_active, last_speech_end,
                          last_transcription_time, instant>>
      [] ev = "Completed" ->
           /\ instant' = instant + 1
           /\ last_transcription_time' = instant + 1
           /\ UNCHANGED <<current_session_transcript, speech_active,
                          last_speech_end>>
      [] ev = "SpeechStarted" ->
           /\ speech_active' = TRUE
           /\ UNCHANGED <<current_session_transcript, last_speech_end,
                          last_transcription_time, instant>>
      [] ev = "SpeechStopped" ->
           /\ speech_active' = FALSE
           /\ instant' = instant + 1
           /\ last_speech_end' = instant + 1
           /\ UNCHANGED <<current_session_transcript,
                          last_transcription_time>>
      [] OTHER -> UNCHANGED <<shared, instant>>

\* realtime.rs 144-203: the frame of the given type (a delta frame carrying
\* the given text) is read and dispatched.
ListenFrame(s, type, text) ==
    /\ sess[s].listen_task = "running"
    /\ nframes' = nframes + 1
    /\ LET ev == TranscriptionEvent(type) IN
         /\ on_event(ev, text)
         /\ sess' = [sess EXCEPT
                ![s].listen_task = IF EndsListen(type) THEN "finished" ELSE @,
                ![s].heard = IF ev = "Delta" THEN @ \o text ELSE @,
                ![s].vad_reported = @ \/ type \in VadFrames]
         /\ late_delta' = (late_delta \/ (ev = "Delta" /\ sess[s].read_done))
    /\ UNCHANGED <<is_recording, recording_start_time, sysaudio, whisperv, cmds,
                   ret, age, nsess, nchunks>>

\* realtime.rs 144-203: one frame is read and dispatched.
Listen(s, types, maxFrames) ==
    /\ nframes < maxFrames
    /\ \E type \in types, text \in DeltaTexts : ListenFrame(s, type, text)

(***************************************************************************)
(* recording_start_time.elapsed() reaches the next threshold (5 minutes,   *)
(* 6 minutes).                                                             *)
(***************************************************************************)
TimePasses ==
    /\ recording_start_time # None
    /\ age < AUTO_STOP_SECS
    /\ age' = IF age < WARNING_SECS THEN WARNING_SECS ELSE AUTO_STOP_SECS
    /\ UNCHANGED <<is_recording, shared, recording_start_time, sysaudio, whisperv,
                   sess, cmds, ret, late_delta, instant, nsess, budget>>

InitWith(maxSessions, maxWhisper) ==
    /\ is_recording = FALSE
    /\ current_session_transcript = <<>>
    /\ speech_active = FALSE
    /\ last_speech_end = None
    /\ last_transcription_time = None
    /\ recording_start_time = None
    /\ was_muted_before = "None"
    /\ sys_muted = FALSE
    /\ recorder_recording = FALSE
    /\ whisper = [w \in 1..maxWhisper |-> NoRecording]
    /\ sess = [s \in 1..maxSessions |-> NoSession]
    /\ startc = Idle
    /\ stopc = StopIdle
    /\ ret = [cmd |-> "none", res |-> "none"]
    /\ late_delta = FALSE
    /\ instant = 0
    /\ age = 0
    /\ nsess = 0
    /\ nwhisper = 0
    /\ nframes = 0
    /\ nchunks = 0

(***************************************************************************)
(* Spec: realtime sessions started and stopped in any order, with a device *)
(* that delivers no audio.                                                 *)
(***************************************************************************)
ControlFrames == TranscriptFrames \cup {"close"}

Init == InitWith(MaxSessions, 0)

Next ==
    \/ StartRealtimeBegin
    \/ StartRealtimeReset
    \/ StartRealtimeSpawn
    \/ StopRealtimeBegin
    \/ StopRealtimeFinish
    \/ \E s \in Sessions : Connect(s)
    \/ \E s \in Sessions : Configure(s)
    \/ \E s \in Sessions : SupervisoryPoll(s)
    \/ \E s \in Sessions : StopSequence(s)
    \/ \E s \in Sessions : CaptureOpen(s)
    \/ \E s \in Sessions : AudioEnd(s)
    \/ \E s \in Sessions : Listen(s, ControlFrames, MaxFrames)

Spec == Init /\ [][Next]_vars

(***************************************************************************)
(* SpecSolo: sessions stopped by the user or by the end of listen_task,    *)
(* in which the server reports speech and no transcription event arrives.  *)
(* The steps of spawned tasks and the continuations of commands are taken  *)
(* eventually (the runtime schedules every runnable task); calls of        *)
(* commands and arrivals of frames are not.                                *)
(***************************************************************************)
SoloFrameTypes == VadFrames \cup EndFrames

SoloIds == 1..SoloSessions

InitSolo == InitWith(SoloSessions, 0)

NextSolo ==
    \/ StartRealtimeBegin
    \/ StartRealtimeReset
    \/ StartRealtimeSpawn
    \/ StopRealtimeBegin
    \/ StopRealtimeFinish
    \/ \E s \in Sessions : Connect(s)
    \/ \E s \in Sessions : Configure(s)
    \/ \E s \in Sessions : SupervisoryPoll(s)
    \/ \E s \in Sessions : StopSequence(s)
    \/ \E s \in Sessions : CaptureOpen(s)
    \/ \E s \in Sessions : AudioEnd(s)
    \/ \E s \in Sessions : Listen(s, SoloFrameTypes, SoloFrames)

TasksSolo ==
    \/ StartRealtimeReset
    \/ StartRealtimeSpawn
    \/ StopRealtimeFinish
    \/ \E s \in Sessions :
         \/ Connect(s)
         \/ Configure(s)
         \/ SupervisoryPoll(s)
         \/ StopSequence(s)
         \/ CaptureOpen(s)
         \/ AudioEnd(s)

SpecSolo == InitSolo /\ [][NextSolo]_vars /\ WF_vars(TasksSolo)

(***************************************************************************)
(* SpecModes: the realtime and the non-streaming commands in any order,    *)
(* accepted or rejected, with the session tasks and the capture threads of *)
(* both modes, without inbound frames.                                     *)
(***************************************************************************)
InitModes == InitWith(SoloSessions, MaxWhisper)

NextModes ==
    \/ StartRealtimeRejected
    \/ StartRealtimeBegin
    \/ StartRealtimeReset
    \/ StartRealtimeSpawn
    \/ StopRealtimeRejected
    \/ StopRealtimeBegin
    \/ StopRealtimeFinish
    \/ StartRecordingAudioRejected
    \/ StartRecordingAudio
    \/ StopRecordingAudioRejected
    \/ StopRecordingAudio
    \/ CancelRecordingRejected
    \/ CancelRecording
    \/ \E w \in Recordings : WhisperThreadOpen(w)
    \/ \E w \in Recordings : WhisperThreadPoll(w)
    \/ \E s \in Sessions : Connect(s)
    \/ \E s \in Sessions : Configure(s)
    \/ \E s \in Sessions : SupervisoryPoll(s)
    \/ \E s \in Sessions : StopSequence(s)
    \/ \E s \in Sessions : CaptureOpen(s)

SpecModes == InitModes /\ [][NextModes]_vars

(***************************************************************************)
(* SpecAudio: sessions that are started and never stopped by a command,    *)
(* with a device that delivers audio.  Fairness as in SpecSolo; the        *)
(* device's callbacks and the arrival of frames are not fair.              *)
(***************************************************************************)
NextAudio ==
    \/ StartRealtimeBegin
    \/ StartRealtimeReset
    \/ StartRealtimeSpawn
    \/ \E s \in Sessions : Connect(s)
    \/ \E s \in Sessions : Configure(s)
    \/ \E s \in Sessions : SupervisoryPoll(s)
    \/ \E s \in Sessions : StopSequence(s)
    \/ \E s \in Sessions : CaptureOpen(s)
    \/ \E s \in Sessions : Callback(s, MaxChunks)
    \/ \E s \in Sessions : CaptureForward(s)
    \/ \E s \in Sessions : AudioRecv(s)
    \/ \E s \in Sessions : AudioEnd(s)
    \/ \E s \in Sessions : AudioSend(s)
    \/ \E s \in Sessions : Listen(s, FrameTypes, SoloFrames)
    \/ TimePasses

TasksAudio ==
    \/ StartRealtimeReset
    \/ StartRealtimeSpawn
    \/ \E s \in Sessions :
         \/ Connect(s)
         \/ Configure(s)
         \/ SupervisoryPoll(s)
         \/ StopSequence(s)
         \/ CaptureOpen(s)
         \/ CaptureForward(s)
         \/ AudioRecv(s)
         \/ AudioEnd(s)
         \/ AudioSend(s)

SpecAudio == InitSolo /\ [][NextAudio]_vars /\ WF_vars(TasksAudio)

(***************************************************************************)
(* SpecWhisper: the non-streaming mode alone, with its capture thread, its *)
(* timer task and the elapsed time.  Fairness as in SpecSolo.              *)
(***************************************************************************)
NextWhisper ==
    \/ StartRecordingAudioRejected
    \/ StartRecordingAudio
    \/ StopRecordingAudioRejected
    \/ StopRecordingAudio
    \/ CancelRecordingRejected
    \/ CancelRecording
    \/ \E w \in Recordings : WhisperThreadOpen(w)
    \/ \E w \in Recordings : WhisperThreadPoll(w)
    \/ \E w \in Recordings : WhisperTimerPoll(w)
    \/ TimePasses

TasksWhisper ==
    \E w \in Recordings :
      \/ WhisperThreadOpen(w)
      \/ WhisperThreadPoll(w)
      \/ WhisperTimerPoll(w)

SpecWhisper == InitModes /\ [][NextWhisper]_vars /\ WF_vars(TasksWhisper)

(***************************************************************************)
(* SpecWire: the realtime mode with a device that delivers audio and the   *)
(* messages handed to the socket, without inbound frames.                  *)
(***************************************************************************)
NextWire ==
    \/ StartRealtimeBegin
    \/ StartRealtimeReset
    \/ StartRealtimeSpawn
    \/ StopRealtimeBegin
    \/ StopRealtimeFinish
    \/ \E s \in Sessions : Connect(s)
    \/ \E s \in Sessions : Configure(s)
    \/ \E s \in Sessions : SupervisoryPoll(s)
    \/ \E s \in Sessions : StopSequence(s)
    \/ \E s \in Sessions : CaptureOpen(s)
    \/ \E s \in Sessions : Callback(s, MaxChunks)
    \/ \E s \in Sessions : CaptureForward(s)
    \/ \E s \in Sessions : AudioRecv(s)
    \/ \E s \in Sessions : AudioEnd(s)
    \/ \E s \in Sessions : AudioSend(s)

SpecWire == InitSolo /\ [][NextWire]_vars

(***************************************************************************)
(* SpecRestart: as SpecWire, with a session started again after a stop.    *)
(***************************************************************************)
SpecRestart == Init /\ [][NextWire]_vars

(***************************************************************************)
(* SpecDsp: a realtime session or a non-streaming recording whose device   *)
(* has one of the native rates and channel counts and delivers buffers of  *)
(* samples.                                                                *)
(***************************************************************************)
NextDsp ==
    \/ StartRealtimeBegin
    \/ StartRealtimeReset
    \/ StartRealtimeSpawn
    \/ StartRecordingAudio
    \/ \E s \in Sessions : Connect(s)
    \/ \E s \in Sessions : Configure(s)
    \/ \E s \in Sessions : CaptureOpenDevice(s, NativeRates, ChannelCounts)
    \/ \E s \in Sessions :
         CallbackSamples(s, SampleSeqs(Samples, MaxSamples), MaxCallbacks)
    \/ \E w \in Recordings : WhisperThreadOpenDevice(w, ChannelCounts)
    \/ \E w \in Recordings :
         WhisperCallback(w, SampleSeqs(Samples, MaxSamples), MaxCallbacks)

SpecDsp == InitModes /\ [][NextDsp]_vars

(***************************************************************************)
(* SpecChunks: SpecDsp with buffers of two sample values, and with         *)
(* the capture thread and audio_task that pass the chunks on to the        *)
(* socket.                                                                 *)
(***************************************************************************)
NextChunks ==
    \/ StartRealtimeBegin
    \/ StartRealtimeReset
    \/ StartRealtimeSpawn
    \/ \E s \in Sessions : Connect(s)
    \/ \E s \in Sessions : Configure(s)
    \/ \E s \in Sessions : CaptureOpenDevice(s, NativeRates, ChannelCounts)
    \/ \E s \in Sessions :
         CallbackSamples(s, SampleSeqs({1, 2}, MaxSamples), MaxCallbacks)
    \/ \E s \in Sessions : CaptureForward(s)
    \/ \E s \in Sessions : AudioRecv(s)
    \/ \E s \in Sessions : AudioSend(s)

SpecChunks == InitSolo /\ [][NextChunks]_vars

(***************************************************************************)
(* SpecDevice: one realtime session started with any selected microphone   *)
(* on a host with any list of input devices.                               *)
(***************************************************************************)
NextDevice ==
    \/ StartRealtimeBegin
    \/ StartRealtimeReset
    \/ StartRealtimeSpawn
    \/ \E s \in Sessions : Connect(s)
    \/ \E s \in Sessions : Configure(s)
    \/ \E s \in Sessions : CaptureResolveDevice(s, MaxDevices)

SpecDevice == InitSolo /\ [][NextDevice]_vars

(***************************************************************************)
(* SpecFallback: one realtime session on a host whose devices carry the    *)
(* names "m" and "m ", started with no selected microphone, with one of    *)
(* these names or with the name "u" that no device carries.                *)
(***************************************************************************)
FallbackNames == { <<"m">>, <<"m", " ">>, <<"u">> }

NextFallback ==
    \/ StartRealtimeBegin
    \/ StartRealtimeReset
    \/ StartRealtimeSpawn
    \/ \E s \in Sessions : Connect(s)
    \/ \E s \in Sessions : Configure(s)
    \/ \E s \in Sessions : CaptureResolve(s, FallbackNames, MaxDevices)

SpecFallback == InitSolo /\ [][NextFallback]_vars

(***************************************************************************)
(* SpecListen: a session task whose listener reads transcript frames,      *)
(* frames it ignores, and frames that end it.                              *)
(***************************************************************************)
ListenFrameTypes == TranscriptFrames \cup IgnoredFrames \cup EndFrames

NextListen ==
    \/ StartRealtimeBegin
    \/ StartRealtimeReset
    \/ StartRealtimeSpawn
    \/ StopRealtimeBegin
    \/ StopRealtimeFinish
    \/ \E s \in Sessions : Connect(s)
    \/ \E s \in Sessions : Configure(s)
    \/ \E s \in Sessions : SupervisoryPoll(s)
    \/ \E s \in Sessions : StopSequence(s)
    \/ \E s \in Sessions : Listen(s, ListenFrameTypes, SoloFrames)

SpecListen == InitSolo /\ [][NextListen]_vars

(***************************************************************************)
(* SpecLimit: the realtime mode with the elapsed time, so that the         *)
(* supervisory loop reaches its thresholds, and a listener that can end.   *)
(***************************************************************************)
NextLimit ==
    \/ StartRealtimeBegin
    \/ StartRealtimeReset
    \/ StartRealtimeSpawn
    \/ StopRealtimeBegin
    \/ StopRealtimeFinish
    \/ \E s \in Sessions : Connect(s)
    \/ \E s \in Sessions : Configure(s)
    \/ \E s \in Sessions : SupervisoryPoll(s)
    \/ \E s \in Sessions : StopSequence(s)
    \/ \E s \in Sessions : CaptureOpen(s)
    \/ \E s \in Sessions : Listen(s, EndFrames, SoloFrames)
    \/ TimePasses

SpecLimit == InitSolo /\ [][NextLimit]_vars

(***************************************************************************)
(* SpecTimer: the start and stop commands of both modes with the elapsed   *)
(* time, the supervisory loop and the timer task.                          *)
(***************************************************************************)
NextTimer ==
    \/ StartRealtimeBegin
    \/ StartRealtimeReset
    \/ StartRealtimeSpawn
    \/ StopRealtimeBegin
    \/ StopRealtimeFinish
    \/ StartRecordingAudio
    \/ StopRecordingAudio
    \/ \E w \in Recordings : WhisperTimerPoll(w)
    \/ \E s \in Sessions : Connect(s)
    \/ \E s \in Sessions : Configure(s)
    \/ \E s \in Sessions : SupervisoryPoll(s)
    \/ \E s \in Sessions : StopSequence(s)
    \/ TimePasses

SpecTimer == InitModes /\ [][NextTimer]_vars

(***************************************************************************)
(* Properties.                                                             *)
(***************************************************************************)
LiveSessions == {s \in Sessions : Live(s)}

\* A step in which the task of a session ends: finalize, or the connect or
\* configure failure exit.
SessionEnds ==
    \E s \in Sessions : Live(s) /\ sess'[s].pc \in {"done", "error"}

\* C1: at no reachable state do two session tasks spawned by
\* start_realtime_recording coexist.
C1_AtMostOneSession == Cardinality(LiveSessions) <= 1

\* C8: no delta is appended to the session transcript by a session's listen
\* task after stop_realtime_recording has read the transcript, so every
\* delta appended before the abort is in the value the caller read.
C8_NoDeltaAfterRead == ~late_delta

\* C9: the recording flag is set to true only by the step that starts a
\* session, and set from true to false only by the step in which a session
\* task ends (finalize).
C9_FlagFlipsAtStartAndFinalize ==
    [][ /\ (~is_recording /\ is_recording' => startc'.pc = "reset")
        /\ (is_recording /\ ~is_recording' => SessionEnds) ]_vars

\* C10: while a session is live the session transcript is the concatenation,
\* in arrival order, of the delta texts its listener has handled.
C10_TranscriptIsDeltas ==
    \A s \in Sessions : Live(s) => current_session_transcript = sess[s].heard

\* The commit messages a session has handed to its socket.
CommitCount(s) ==
    Cardinality({i \in DOMAIN sess[s].wire :
                    sess[s].wire[i][1] = "input_audio_buffer.commit"})

\* A start command takes its first step past the lock.
StartCall ==
    \/ StartRealtimeRejected
    \/ StartRealtimeBegin
    \/ StartRecordingAudioRejected
    \/ StartRecordingAudio

\* C2: a start call (start_realtime_recording or start_recording_audio) made
\* while the recording flag is true returns "Already recording", changes no
\* field of the session state (flag, transcript, speech state, transcription
\* time, start time), and spawns no task or thread.
C2_StartWhileRecordingRejected ==
    [][ is_recording /\ StartCall =>
          /\ ret'.res = "Already recording"
          /\ UNCHANGED <<is_recording, shared, recording_start_time, sess, nsess,
                         whisper, nwhisper, recorder_recording, startc,
                         sysaudio>> ]_vars

\* C2 happens: start_recording_audio has been rejected while a realtime
\* session was streaming.
C2_Witness ==
    /\ ret = [cmd |-> "start_recording_audio", res |-> "Already recording"]
    /\ is_recording
    /\ \E s \in Sessions : sess[s].pc = "poll"

\* One of the terminal failures of a started session has happened.
Failed(s) ==
    \/ sess[s].pc = "error"                  \* connect or configure failed
    \/ sess[s].cap = "failed"                \* device or stream failed
    \/ sess[s].audio_task = "failed"         \* send_audio returned Err
    \/ sess[s].listen_task = "finished"      \* socket error or close

\* C3: after any terminal failure of a started session (connect, configure,
\* device or stream, audio send, listen socket error) the recording flag is
\* eventually false, without a stop call.
C3_FailureClearsFlag ==
    \A s \in SoloIds : Failed(s) ~> ~is_recording

\* C4: when the stop is observed with speech_active false and
\* last_speech_end None, the session task sends no commit message and spends
\* no time in the drain loop before it finalizes, and stop_realtime_recording
\* spends no time in its wait loop before it reads the transcript.
C4_NoSpeechNoCommitNoDrain ==
    /\ \A s \in Sessions :
         sess[s].quiet_at_stop =>
           /\ CommitCount(s) = 0
           /\ sess[s].drain_ms = 0
           /\ sess[s].pc \in {"stopping", "done"}
    /\ stopc.quiet_at_stop =>
         /\ stopc.wait_ms = 0
         /\ stopc.pc \in {"read", "idle"}

\* C4 happens: a session stopped by the user without speech is finalized and
\* the stop command has returned.
C4_Witness ==
    /\ \E s \in Sessions : sess[s].quiet_at_stop /\ sess[s].pc = "done"
    /\ stopc.quiet_at_stop
    /\ stopc.pc = "idle"
    /\ ret = [cmd |-> "stop_realtime_recording", res |-> "Realtime recording stopped"]

\* C5: a session in which the server had reported speech when the stop was
\* observed has sent exactly one commit message by the time it is finalized.
C5_SpeechCommitsOnce ==
    \A s \in Sessions :
      sess[s].pc = "done" /\ sess[s].vad_at_stop => CommitCount(s) = 1

C11_FinalizedIsRead ==
    \A s \in Sessions :
      sess[s].pc = "done" /\ ~is_recording /\ stopc.pc = "idle"
        => sess[s].read_done

\* C12: when start_realtime_recording returns success the session transcript
\* is empty, speech_active is false, and last_speech_end and
\* last_transcription_time are None.
C12_ResetAtStart ==
    [][ StartRealtimeSpawn =>
          /\ current_session_transcript' = <<>>
          /\ ~speech_active'
          /\ last_speech_end' = None
          /\ last_transcription_time' = None ]_vars

\* The tasks of a finalized session: none is running and the flag is clear.
Finalized(s) ==
    /\ sess[s].pc = "done"
    /\ sess[s].audio_task \notin {"recv", "send"}
    /\ sess[s].listen_task # "running"
    /\ ~is_recording

\* C13: when listen_task has finished while the session is in its
\* supervisory loop with the recording flag true, the loop is left and the
\* stop sequence runs to its end: the tasks are aborted and the flag is
\* false, without a stop call.
C13_ListenEndForcesStop ==
    \A s \in SoloIds :
      (sess[s].pc = "poll" /\ sess[s].listen_task = "finished" /\ is_recording)
        ~> Finalized(s)

\* C13 happens: a session whose listen_task finished has been finalized and
\* no stop_realtime_recording call was ever accepted.
C13_Witness ==
    /\ \E s \in Sessions :
         /\ sess[s].pc = "done"
         /\ sess[s].listen_task = "finished"
         /\ ~sess[s].read_done
    /\ stopc = StopIdle
    /\ ~is_recording

\* C14: after send_audio has failed in a session, the session is finalized
\* (tasks no longer running, recording flag false) without a stop call.
C14_SendFailureEndsSession ==
    \A s \in SoloIds : (sess[s].audio_task = "failed") ~> Finalized(s)

\* The step in which the connect of session s fails.
ConnectFails(s) == sess[s].pc = "connect" /\ sess'[s].pc = "error"

\* C15: when connect fails the recording flag is false, no capture thread,
\* audio_task or listen_task has been started, and the caller of
\* start_realtime_recording is handed an error, not a success.
C15_ConnectErrorSurfaced ==
    [][ \A s \in Sessions :
          ConnectFails(s) =>
            /\ ~is_recording'
            /\ sess'[s].cap = "none"
            /\ sess'[s].audio_task = "none"
            /\ sess'[s].listen_task = "none"
            /\ ret'.cmd = "start_realtime_recording"
            /\ ret'.res # "Realtime recording started" ]_vars

\* The part of C15 about the state alone.
C15_ConnectFailureReturnsToIdle ==
    [][ \A s \in Sessions :
          ConnectFails(s) =>
            /\ ~is_recording'
            /\ sess'[s].cap = "none"
            /\ sess'[s].audio_task = "none"
            /\ sess'[s].listen_task = "none" ]_vars

WhisperIds == 1..MaxWhisper

\* C16: after the input device or its stream has failed to open, in the
\* realtime capture thread or in the non-streaming capture thread, the
\* application-level recording flag is eventually false.
C16_DeviceErrorClearsFlag ==
    /\ \A s \in SoloIds : (sess[s].cap = "failed") ~> ~is_recording
    /\ \A w \in WhisperIds : (whisper[w].thread = "failed") ~> ~is_recording

\* The realtime half of C16.
C16_RealtimeDeviceErrorClearsFlag ==
    \A s \in SoloIds : (sess[s].cap = "failed") ~> ~is_recording

Sent(s, k) == { i \in 1..Len(sess[s].wire) : sess[s].wire[i][1] = k }

\* C19: a session hands at most one session.update to its socket, it has
\* handed exactly one once configure_transcription has been called, that
\* message is the first on the socket (so it precedes every append), and a
\* session whose configuration failed has handed over no append and no
\* commit.
C19_ConfigureOnceAndFirst ==
    \A s \in Sessions :
      /\ Cardinality(Sent(s, "session.update")) <= 1
      /\ sess[s].wire # <<>> => sess[s].wire[1][1] = "session.update"
      /\ sess[s].pc \in {"poll", "stopping", "drain", "abort", "done"} =>
            Cardinality(Sent(s, "session.update")) = 1
      /\ sess[s].pc = "error" =>
            /\ Sent(s, "input_audio_buffer.append") = {}
            /\ Sent(s, "input_audio_buffer.commit") = {}
            /\ sess[s].cap = "none"
            /\ sess[s].audio_task = "none"

\* A finalized session whose socket carried the configuration message and
\* then audio.
C19_Witness ==
    \E s \in Sessions :
      /\ sess[s].pc = "done"
      /\ Len(sess[s].wire) >= 2
      /\ sess[s].wire[1][1] = "session.update"
      /\ sess[s].wire[2][1] = "input_audio_buffer.append"

\* C20: the listener hands speech_started and speech_stopped frames to the
\* callback, so the speech state follows them: while the latest session is
\* live and no new start is under way, once a VAD frame has arrived for it
\* either speech_active is true (the last one was speech_started) or
\* last_speech_end is set (a speech_stopped has been seen).
C20_SpeechStateFollowsFrames ==
    \A s \in Sessions :
      Live(s) /\ s = nsess /\ startc.pc = "idle" /\ sess[s].vad_reported =>
        speech_active \/ last_speech_end # None

\* C21: reading a server error event, an event of unknown type, a non-text
\* frame or an unparsable frame calls no callback (the shared session state
\* and what the session heard are unchanged) and leaves the listener
\* running, so that the next frame is read; the listener finishes only in a
\* step that reads a close frame or a socket error.
C21_ListenEndsOnlyOnSocketEnd ==
    [][ \A s \in Sessions :
          /\ \A type \in IgnoredFrames, text \in DeltaTexts :
                ListenFrame(s, type, text) =>
                  /\ UNCHANGED shared
                  /\ sess'[s].heard = sess[s].heard
                  /\ sess'[s].listen_task = "running"
          /\ sess[s].listen_task = "running" /\ sess'[s].listen_task = "finished" =>
                \E type \in EndFrames, text \in DeltaTexts :
                  ListenFrame(s, type, text) ]_vars

\* A listener that has read two frames of which only one was a delta, and
\* is still running.
C21_Witness ==
    \E s \in Sessions :
      /\ sess[s].listen_task = "running"
      /\ nframes = 2
      /\ sess[s].heard \in DeltaTexts
      /\ current_session_transcript = sess[s].heard
      /\ last_transcription_time = None

\* C22: audio_task and listen_task are aborted only by a step taken after
\* the drain phase (from "stopping" without speech, or from "abort", which
\* the drain loop reaches on a newer transcription plus settle or on its
\* timeout), and audio_task is not aborted while it is inside send_audio
\* with an append message.
C22_AbortAfterDrainNeverMidSend ==
    [][ \A s \in Sessions :
          (\/ sess[s].audio_task # "aborted" /\ sess'[s].audio_task = "aborted"
           \/ sess[s].listen_task # "aborted" /\ sess'[s].listen_task = "aborted")
          =>
          /\ \/ sess[s].pc = "abort"
             \/ sess[s].pc = "stopping" /\ ~sess[s].had_any_speech
          /\ sess[s].audio_task # "send" ]_vars

\* The first part of C22: the abort step comes after the drain phase.
C22_AbortAfterDrain ==
    [][ \A s \in Sessions :
          (\/ sess[s].audio_task # "aborted" /\ sess'[s].audio_task = "aborted"
           \/ sess[s].listen_task # "aborted" /\ sess'[s].listen_task = "aborted")
          =>
          \/ sess[s].pc = "abort"
          \/ sess[s].pc = "stopping" /\ ~sess[s].had_any_speech ]_vars

\* realtime.rs 142-144: listen_for_events locks the read half before its
\* loop and keeps the guard until it returns, so a running listen_task holds
\* it; realtime.rs 115-118: send_audio locks the write half and keeps the
\* guard over write.send, so audio_task holds it while it is inside
\* send_audio.
SocketLocksHeld(s) ==
    (IF sess[s].listen_task = "running" THEN {<<"listen_task", "read">>} ELSE {})
    \cup (IF sess[s].audio_task = "send" THEN {<<"audio_task", "write">>} ELSE {})

\* lib.rs 824-826, realtime.rs 116, 144: the tasks of a session that are
\* suspended on the socket: a running listen_task on read.next(), audio_task
\* inside send_audio on write.send().
SuspendedOnSocket(s) ==
    (IF sess[s].listen_task = "running" THEN {"listen_task"} ELSE {})
    \cup (IF sess[s].audio_task = "send" THEN {"audio_task"} ELSE {})

\* C23: no task that is suspended on a socket send or receive holds a mutex
\* guarding a socket half.
C23_NoLockAcrossSocketIO ==
    \A s \in Sessions :
      \A h \in SocketLocksHeld(s) : h[1] \notin SuspendedOnSocket(s)

\* A realtime session that has been started and has not yet observed a
\* stop.
Streaming(s) == sess[s].pc \in {"connect", "configure", "poll"}

\* C24: a cancel_recording call hands no message to any socket, and while a
\* realtime session is streaming it leaves the recording flag as it is (so
\* that session's stop sequence is not triggered).
C24_CancelOnlyNonStreaming ==
    [][ (CancelRecording \/ CancelRecordingRejected) =>
          /\ \A s \in Sessions : sess'[s].wire = sess[s].wire
          /\ (\E s \in Sessions : Streaming(s)) => is_recording' = is_recording
      ]_vars

\* The network part of C24: no cancel_recording step puts a message on a
\* socket.
C24_CancelSendsNothing ==
    [][ (CancelRecording \/ CancelRecordingRejected) =>
          \A s \in Sessions : sess'[s].wire = sess[s].wire ]_vars

\* C25: at native rate 48000 the chunk resampled from a mono buffer of n
\* samples has floor(n / 2) samples, the k-th being the sample at offset
\* 2 * (k - 1) of the buffer.
C25_Decimation48k ==
    \A s \in Sessions :
      sess[s].native_rate = 48000 =>
        LET mono == sess[s].mono_data
            out == sess[s].resampled
        IN  /\ Len(out) = Len(mono) \div 2
            /\ \A k \in 1..Len(out) : out[k] = mono[2 * (k - 1) + 1]

\* The content part of C25 with the length the code produces: every second
\* sample starting with the first, ceil(n / 2) of them.
C25_EverySecondSample ==
    \A s \in Sessions :
      sess[s].native_rate = 48000 =>
        LET mono == sess[s].mono_data
            out == sess[s].resampled
        IN  /\ Len(out) = (Len(mono) + 1) \div 2
            /\ \A k \in 1..Len(out) : out[k] = mono[2 * (k - 1) + 1]

\* C26: at native rate 16000 the chunk resampled from a mono buffer of n
\* samples has floor(3 * n / 2) samples, and in every group of three output
\* positions the second holds (2 * curr + next) / 3 of the input pair that
\* surrounds it.
C26_Upsampling16k ==
    \A s \in Sessions :
      sess[s].native_rate = 16000 /\ sess[s].cap # "panicked" =>
        LET mono == sess[s].mono_data
            out == sess[s].resampled
        IN  /\ Len(out) = (Len(mono) * 3) \div 2
            /\ \A j \in 1..Len(out) :
                  j % 3 = 2 =>
                    LET i == 2 * (j \div 3) + 1
                    IN  /\ i + 1 <= Len(mono)
                        /\ out[j] = TruncDiv(2 * mono[i] + mono[i + 1], 3)

\* C27: at native rate 24000 a callback resamples its mono buffer to itself,
\* and what it puts into the channel is that buffer.
C27_Identity24k ==
    [][ \A s \in Sessions :
          sess[s].native_rate = 24000 /\ sess'[s].callbacks # sess[s].callbacks =>
            /\ sess'[s].resampled = sess'[s].mono_data
            /\ sess'[s].mono_data # <<>> =>
                  sess'[s].local_audio_rx =
                      Append(sess[s].local_audio_rx, sess'[s].mono_data) ]_vars

\* A callback at 24 kHz has handed over a buffer of several samples.
C27_Witness ==
    \E s \in Sessions :
      /\ sess[s].native_rate = 24000
      /\ sess[s].callbacks = 1
      /\ Len(sess[s].mono_data) >= 2
      /\ sess[s].local_audio_rx = <<sess[s].mono_data>>

\* The chunks of session s that are in a channel, in audio_task's hands, or
\* on the socket as the payload of an append message.
ChunksInFlight(s) ==
    { sess[s].local_audio_rx[i] : i \in 1..Len(sess[s].local_audio_rx) }
    \cup { sess[s].audio_rx[i] : i \in 1..Len(sess[s].audio_rx) }
    \cup (IF sess[s].audio_task = "send" THEN {sess[s].chunk} ELSE {})
    \cup { sess[s].wire[i][2] : i \in Sent(s, "input_audio_buffer.append") }

\* C28: no chunk in a channel, being sent, or sent as an append message is
\* empty, and a callback whose resampled chunk is empty leaves the channel
\* as it was.
C28_NoEmptyChunk ==
    \A s \in Sessions : \A c \in ChunksInFlight(s) : c # <<>>

\* A callback with samples whose resampled chunk was empty: nothing is in a
\* channel or on the socket besides the configuration message.
C28_Witness ==
    \E s \in Sessions :
      /\ sess[s].callbacks = 1
      /\ sess[s].data # <<>>
      /\ sess[s].resampled = <<>>
      /\ ChunksInFlight(s) = {}
      /\ sess[s].audio_task = "recv"

\* Whether the integer m is the average sum / n up to the rounding of the
\* integer division.
RoundedAverage(m, sum, n) == -n < n * m - sum /\ n * m - sum < n

\* C29: in the streaming callback and in the recorder's callback, with one
\* channel the mono samples are the buffer itself; with N > 1 channels there
\* is one mono sample per complete frame, in order, and it is the average of
\* the frame's N samples (exact for the recorder's f32 samples, which are
\* appended to the recording; rounded by the integer division for the
\* streaming i16 samples).
C29_DownmixAverages ==
    /\ \A s \in Sessions :
         LET n == sess[s].channels
             data == sess[s].data
             mono == sess[s].mono_data
         IN  /\ n = 1 => mono = data
             /\ n > 1 =>
                   /\ Len(mono) = Len(data) \div n
                   /\ \A k \in 1..Len(mono) :
                         RoundedAverage(mono[k], SumSeq(Frame(data, n, k)), n)
    /\ \A w \in Recordings :
         LET n == whisper[w].channels
             data == whisper[w].data
             mono == whisper[w].audio
             frames == IF n > 0 THEN Len(data) \div n ELSE 0
             before == Len(mono) - frames
         IN  /\ before >= 0
             /\ \A k \in 1..frames :
                   /\ mono[before + k].num = SumSeq(Frame(data, n, k))
                   /\ mono[before + k].den = n

\* The two-channel frame [1, -1] has been reduced to 0 by the streaming
\* callback.
C29_Witness ==
    \E s \in Sessions :
      /\ sess[s].channels = 2
      /\ sess[s].data = <<1, -1>>
      /\ sess[s].mono_data = <<0>>

\* The listed devices whose name is the requested name, and those whose
\* trimmed name is the trimmed requested name.
ExactMatches(s) ==
    { i \in 1..Len(sess[s].devices) : sess[s].devices[i] = sess[s].selected_mic.name }

TrimmedMatches(s) ==
    { i \in 1..Len(sess[s].devices) :
        Trim(sess[s].devices[i]) = Trim(sess[s].selected_mic.name) }

\* C30: for a requested name, the device resolved is one with exactly that
\* name whenever the list has one; otherwise one whose trimmed name is the
\* trimmed request whenever the list has one; otherwise the default device;
\* and no device is resolved when the host has no input device at all.
C30_DeviceResolutionPriority ==
    \A s \in Sessions :
      sess[s].selected_mic.some /\ sess[s].cap \in {"running", "failed"} =>
        /\ sess[s].device # 0 =>
              IF ExactMatches(s) # {} THEN sess[s].device \in ExactMatches(s)
              ELSE IF TrimmedMatches(s) # {} THEN sess[s].device \in TrimmedMatches(s)
              ELSE sess[s].device = sess[s].default_device
        /\ sess[s].devices = <<>> /\ sess[s].default_device = 0 =>
              sess[s].device = 0 /\ sess[s].cap = "failed"

\* The listed devices that pass the test of audio.rs 31 for the requested
\* name.
Matching(s) ==
    { i \in 1..Len(sess[s].devices) :
        Matches(sess[s].devices[i], sess[s].selected_mic.name) }

\* C31: when a device name is requested that none of the devices the host
\* lists matches, and the host has a default input device, the lookup
\* returns that default device: the unknown name alone does not make
\* start_streaming fail.
C31_UnknownNameFallsBackToDefault ==
    \A s \in Sessions :
      /\ sess[s].cap \in {"running", "failed"}
      /\ sess[s].selected_mic.some
      /\ sess[s].enumerated
      /\ Matching(s) = {}
      /\ sess[s].default_device # 0
      => sess[s].device = sess[s].default_device

\* A stream runs on the default device of a host that lists devices none of
\* which has the requested name.
C31_Witness ==
    \E s \in Sessions :
      /\ sess[s].cap = "running"
      /\ sess[s].selected_mic = SomeName(<<"u">>)
      /\ sess[s].enumerated
      /\ sess[s].devices = <<(<<"m">>), (<<"m", " ">>)>>
      /\ Matching(s) = {}
      /\ sess[s].default_device = 2
      /\ sess[s].device = 2

\* C32: once a later session has been started, no step of an earlier
\* session's task (its finalize step or one of its failure paths) turns the
\* recording flag from true to false.
C32_NoStopOfSuccessor ==
    [][\A s \in Sessions :
         s < nsess /\ sess'[s] # sess[s] /\ is_recording => is_recording']_vars

\* C33: once the session transcript and the speech state have been reset
\* for a later session, no frame handled by the listen task of an earlier
\* session changes the transcript, speech_active, last_speech_end or
\* last_transcription_time.
C33_ListenerOfEarlierSessionIsMute ==
    [][\A s \in Sessions :
         s < nsess /\ nframes' # nframes /\ sess'[s] # sess[s]
           => UNCHANGED shared]_vars

\* The chunks carried by the append messages session s has handed to its
\* socket, in the order of the messages.
RECURSIVE Appended(_)
Appended(wire) ==
    IF wire = <<>> THEN <<>>
    ELSE IF Head(wire)[1] = "input_audio_buffer.append"
    THEN <<Head(wire)[2]>> \o Appended(Tail(wire))
    ELSE Appended(Tail(wire))

\* The chunks the capture thread has forwarded: those on the wire, the one
\* audio_task holds, and those waiting in audio_rx.
Forwarded(s) ==
    Appended(sess[s].wire)
      \o (IF sess[s].chunk # 0 THEN <<sess[s].chunk>> ELSE <<>>)
      \o sess[s].audio_rx

IsPrefix(p, q) == Len(p) <= Len(q) /\ SubSeq(q, 1, Len(p)) = p

C36_ListenEffectsDisjoint ==
    [][\A s \in Sessions, type \in TranscriptFrames, text \in DeltaTexts :
         ListenFrame(s, type, text) =>
           /\ TranscriptionEvent(type) = "Delta" =>
                 /\ current_session_transcript' = current_session_transcript \o text
                 /\ UNCHANGED <<last_transcription_time, speech_active,
                                last_speech_end>>
                 /\ \A before \in 0..instant :
                       new_transcription_arrived(last_transcription_time', before)
                         = new_transcription_arrived(last_transcription_time, before)
           /\ TranscriptionEvent(type) = "Completed" =>
                 /\ UNCHANGED <<current_session_transcript, speech_active,
                                last_speech_end>>
                 /\ last_transcription_time' > last_transcription_time
                 /\ new_transcription_arrived(last_transcription_time',
                                              last_transcription_time)]_vars

\* A live session's listener has handled a Delta and a Completed.
C36_Witness ==
    \E s \in Sessions :
      /\ sess[s].listen_task = "running"
      /\ sess[s].heard = <<"h", "e">>
      /\ current_session_transcript = <<"h", "e">>
      /\ last_transcription_time # None

StopCommands == {"stop_realtime_recording", "stop_recording_audio", "cancel_recording"}

\* C37: a stop or cancel command called while the recording flag is false
\* returns "Not recording" and changes nothing else: no call of
\* stop_realtime_recording gets past its check (so it reads no transcript
\* and waits for nothing), no step of stop_recording_audio or
\* cancel_recording other than that return is taken, and the step that
\* returns "Not recording" leaves the flag, the shared state, the system
\* audio, the recorder, the sessions and the clock as they are.
C37_StopWhileIdleChangesNothing ==
    [][/\ ~is_recording /\ stopc.pc = "idle" => stopc' = stopc
       /\ ~is_recording /\ ret' # ret
             /\ ret'.cmd \in {"stop_recording_audio", "cancel_recording"}
           => ret'.res = "Not recording"
       /\ ret' # ret /\ ret'.res = "Not recording" =>
             /\ ~is_recording
             /\ ret'.cmd \in StopCommands
             /\ UNCHANGED <<is_recording, shared, recording_start_time, sysaudio,
                            whisperv, sess, cmds, late_delta, clock, nsess,
                            budget>>]_vars

\* After a session has been stopped, a further stop_realtime_recording has
\* returned "Not recording".
C37_Witness ==
    /\ ret = [cmd |-> "stop_realtime_recording", res |-> "Not recording"]
    /\ ~is_recording
    /\ stopc.pc = "idle"
    /\ \E s \in Sessions : sess[s].read_done

\* C38: once stop_realtime_recording has cleared the flag for a session and
\* returned, the session's capture thread forwards no further chunk: the
\* next chunk it receives makes it leave its loop and release the device.
C38_CaptureStopsAfterFlagClears ==
    [][\A s \in Sessions :
         sess[s].read_done /\ sess[s].cap = "running" =>
           /\ Len(sess'[s].audio_rx) <= Len(sess[s].audio_rx)
           /\ Len(sess'[s].local_audio_rx) < Len(sess[s].local_audio_rx)
                 => sess'[s].cap = "released"]_vars

\* C39: whenever the recording flag is false and no stop command is under
\* way, no mute taken by a start command is left in place: every path that
\* cleared the flag has called unmute_system_audio, so the saved mute state
\* is None again and the output that was audible at the start is audible.
C39_MuteNeverLeftInPlace ==
    ~is_recording /\ stopc.pc = "idle" =>
        was_muted_before = "None" /\ ~sys_muted

\* C40: at every native rate a callback whose mono buffer is empty ends
\* normally with an empty resampled chunk, and puts nothing into the
\* channel.
C40_EmptyChunkIsValid ==
    \A s \in Sessions :
      sess[s].callbacks > 0 /\ sess[s].mono_data = <<>> =>
        /\ sess[s].cap # "panicked"
        /\ sess[s].resampled = <<>>
        /\ sess[s].local_audio_rx = <<>>

====
